---- MODULE Spec2Model ----
(***************************************************************************)
(* The pylint checkers of the pyspark style guide: the metric functions of *)
(* pylint_utils.py, the six checkers' visit/leave handlers, and the walker *)
(* that calls them on the nodes of an astroid tree.                        *)
(*                                                                         *)
(* An astroid node is a record with a "kind" field (its class) and the     *)
(* attributes that class has; hasattr(n, 'x') is "x" \in DOMAIN n.         *)
(* A Python call either returns a value or raises: the result of a         *)
(* function that can raise is [exc |-> "" or the exception, val |-> v].    *)
(***************************************************************************)
EXTENDS Integers, Sequences, FiniteSets, TLC

VARIABLES cur, event, pending, last, added, exc, function_stack, entered, pc

vars == <<cur, event, pending, last, added, exc, function_stack, entered, pc>>

-----------------------------------------------------------------------------
(* Bounds of the model *)

\* deepest nesting of FunctionDefs in the walked tree
MaxDepth == 2
\* most statements in a FunctionDef body
MaxBody == 2
\* most arguments of a select(...) call
MaxArgs == 2
\* longest method chain a.f1()...fk()
MaxChain == 5
\* deepest nesting of BinOps
MaxBinDepth == 3

(* Constants of the checkers *)

\* function_call_checker.py:49 and statement_call_checker.py:48
LineLimit == 120
\* statement_call_checker.py:47, base_length = 3  # _=_
AssignOverhead == 3
\* logic_op_complexity_checker.py:44
ComplexityLimit == 3
\* chained_function_checker.py:29
ChainLimit == 3

-----------------------------------------------------------------------------
(* Python values and results *)

Return(v) == [exc |-> "", val |-> v]
Raise(e) == [exc |-> e, val |-> 0]
RaiseB(e) == [exc |-> e, val |-> FALSE]

hasattr(n, a) == a \in DOMAIN n
isinstance(n, k) == hasattr(n, "kind") /\ n.kind = k

\* the Python value of a Const node
PyStr(s) == [tag |-> "str", i |-> 0, s |-> s]
PyInt(i) == [tag |-> "int", i |-> i, s |-> ""]
PyBool(b) == [tag |-> "bool", i |-> IF b THEN 1 ELSE 0, s |-> ""]
PyNone == [tag |-> "NoneType", i |-> 0, s |-> ""]

Digits == <<"0", "1", "2", "3", "4", "5", "6", "7", "8", "9">>

RECURSIVE IntToStr(_)
IntToStr(n) ==
    IF n < 0 THEN "-" \o IntToStr(0 - n)
    ELSE IF n < 10 THEN Digits[n + 1]
    ELSE IntToStr(n \div 10) \o Digits[(n % 10) + 1]

\* str(value)
str(v) ==
    CASE v.tag = "str" -> v.s
      [] v.tag = "int" -> IntToStr(v.i)
      [] v.tag = "bool" -> IF v.i = 1 THEN "True" ELSE "False"
      [] OTHER -> "None"

\* Const.pytype(): the qualified name of the value's type, a str
pytype(arg) == "__builtin__." \o arg.value.tag

\* isinstance(x, basestring)
isinstance_basestring(x) == x \in STRING

-----------------------------------------------------------------------------
(* astroid nodes *)

Name(name, line) == [kind |-> "Name", name |-> name, lineno |-> line]
AssignName(name, line) == [kind |-> "AssignName", name |-> name, lineno |-> line]
Const(value, line) == [kind |-> "Const", value |-> value, lineno |-> line]
Attribute(expr, attrname, line) ==
    [kind |-> "Attribute", expr |-> expr, attrname |-> attrname, lineno |-> line]
Call(func, args, line) == [kind |-> "Call", func |-> func, args |-> args, lineno |-> line]
BinOp(left, op, right, line) ==
    [kind |-> "BinOp", left |-> left, op |-> op, right |-> right, lineno |-> line]
Assign(targets, value, line) ==
    [kind |-> "Assign", targets |-> targets, value |-> value, lineno |-> line]
Tuple(elts, line) == [kind |-> "Tuple", elts |-> elts, lineno |-> line]
List(elts, line) == [kind |-> "List", elts |-> elts, lineno |-> line]
Compare(left, ops, line) == [kind |-> "Compare", left |-> left, ops |-> ops, lineno |-> line]
\* a node class get_length has no case for
Dict(line) == [kind |-> "Dict", lineno |-> line]
Expr(value, line, col) ==
    [kind |-> "Expr", value |-> value, lineno |-> line, col_offset |-> col]
Arguments(args) == [kind |-> "Arguments", args |-> args]
FunctionDef(name, args, body, line) ==
    [kind |-> "FunctionDef", name |-> name, args |-> Arguments(args), body |-> body,
     lineno |-> line]

-----------------------------------------------------------------------------
(* pylint_utils.py *)

RECURSIVE get_length(_)
RECURSIVE compute_arguments_length(_)
RECURSIVE compute_target_lengths(_)
RECURSIVE tuple_names_length(_)
RECURSIVE compare_ops_length(_)
RECURSIVE list_elts_length(_)

compute_arguments_length(arguments) ==
    IF arguments = <<>> THEN Return(0)
    ELSE LET h == get_length(Head(arguments)) IN
         IF h.exc # "" THEN h
         ELSE LET t == compute_arguments_length(Tail(arguments)) IN
              IF t.exc # "" THEN t ELSE Return(h.val + t.val)

compute_target_lengths(targets) ==
    IF targets = <<>> THEN Return(0)
    ELSE LET h == get_length(Head(targets)) IN
         IF h.exc # "" THEN h
         ELSE LET t == compute_target_lengths(Tail(targets)) IN
              IF t.exc # "" THEN t ELSE Return(h.val + t.val)

\* the loop of get_length's Tuple case: len(value.name) of every element
tuple_names_length(elts) ==
    IF elts = <<>> THEN Return(0)
    ELSE IF ~hasattr(Head(elts), "name") THEN Raise("AttributeError")
    ELSE LET t == tuple_names_length(Tail(elts)) IN
         IF t.exc # "" THEN t ELSE Return(Len(Head(elts).name) + t.val)

\* the loop of get_length's Compare case; an op is <<operator, operand>>
compare_ops_length(ops) ==
    IF ops = <<>> THEN Return(0)
    ELSE LET h == get_length(Head(ops)[2]) IN
         IF h.exc # "" THEN h
         ELSE LET t == compare_ops_length(Tail(ops)) IN
              IF t.exc # "" THEN t
              ELSE Return(2 + Len(Head(ops)[1]) + h.val + t.val)

\* the loop of get_length's List case
list_elts_length(elts) ==
    IF elts = <<>> THEN Return(0)
    ELSE LET h == get_length(Head(elts)) IN
         IF h.exc # "" THEN h
         ELSE LET t == list_elts_length(Tail(elts)) IN
              IF t.exc # "" THEN t ELSE Return(h.val + t.val)

get_length(arg) ==
    IF isinstance(arg, "Const") THEN
        LET length == Len(str(arg.value)) IN
        IF isinstance_basestring(pytype(arg)) THEN Return(length + 2) ELSE Return(length)
    ELSE IF isinstance(arg, "BinOp") THEN
        LET l == get_length(arg.left) IN
        IF l.exc # "" THEN l
        ELSE LET r == get_length(arg.right) IN
             IF r.exc # "" THEN r ELSE Return(3 + l.val + r.val)
    ELSE IF isinstance(arg, "Call") THEN
        LET f == get_length(arg.func) IN
        IF f.exc # "" THEN f
        ELSE LET a == compute_arguments_length(arg.args) IN
             IF a.exc # "" THEN a ELSE Return(f.val + a.val + 2)
    ELSE IF isinstance(arg, "Attribute") THEN
        LET e == IF hasattr(arg.expr, "name") THEN Return(Len(arg.expr.name))
                 ELSE get_length(arg.expr) IN
        IF e.exc # "" THEN e ELSE Return(e.val + 1 + Len(arg.attrname))
    ELSE IF isinstance(arg, "Assign") THEN
        LET t == compute_target_lengths(arg.targets) IN
        IF t.exc # "" THEN t
        ELSE LET v == get_length(arg.value) IN
             IF v.exc # "" THEN v ELSE Return(2 + v.val + t.val)
    ELSE IF isinstance(arg, "Tuple") THEN
        LET n == tuple_names_length(arg.elts) IN
        IF n.exc # "" THEN n
        ELSE IF Len(arg.elts) > 1 THEN Return(n.val + (Len(arg.elts) - 1) * 2)
        ELSE n
    ELSE IF isinstance(arg, "Name") THEN Return(Len(arg.name))
    ELSE IF isinstance(arg, "AssignName") THEN Return(Len(arg.name))
    ELSE IF isinstance(arg, "Compare") THEN
        LET o == compare_ops_length(arg.ops) IN
        IF o.exc # "" THEN o
        ELSE LET l == get_length(arg.left) IN
             IF l.exc # "" THEN l ELSE Return(o.val + l.val)
    ELSE IF isinstance(arg, "List") THEN list_elts_length(arg.elts)
    ELSE Return(0)

\* the loop over the arguments of select(...): True at the first Call argument
\* whose func.attrname is attr; arg.func.attrname raises when func has none
RECURSIVE select_args_loop(_, _)
select_args_loop(args, attr) ==
    IF args = <<>> THEN Return(FALSE)
    ELSE IF isinstance(Head(args), "Call") THEN
        IF ~hasattr(Head(args).func, "attrname") THEN RaiseB("AttributeError")
        ELSE IF Head(args).func.attrname = attr THEN Return(TRUE)
        ELSE select_args_loop(Tail(args), attr)
    ELSE select_args_loop(Tail(args), attr)

select_contains_alias_call(expression) ==
    IF ~hasattr(expression.value, "func") THEN RaiseB("AttributeError")
    ELSE IF ~hasattr(expression.value.func, "attrname") THEN Return(FALSE)
    ELSE IF expression.value.func.attrname = "select"
         THEN select_args_loop(expression.value.args, "alias")
    ELSE Return(FALSE)

\* reads func.name where the alias variant reads func.attrname
select_contains_cast_call(expression) ==
    IF ~hasattr(expression.value, "func") THEN RaiseB("AttributeError")
    ELSE IF ~hasattr(expression.value.func, "attrname") THEN Return(FALSE)
    ELSE IF ~hasattr(expression.value.func, "name") THEN RaiseB("AttributeError")
    ELSE IF expression.value.func.name = "select"
         THEN select_args_loop(expression.value.args, "cast")
    ELSE Return(FALSE)

\* some node of the sequence is on another line than line
any_off_line(nodes, line) == \E i \in 1..Len(nodes) : nodes[i].lineno # line

\* astroid.nodes.Function is the old name of FunctionDef. A node of no
\* handled class falls off the end: None, which every caller reads as false.
is_line_split(val) ==
    LET line == val.lineno IN
    IF isinstance(val, "FunctionDef") THEN any_off_line(val.args.args, line)
    ELSE IF isinstance(val, "Call") THEN any_off_line(val.args, line)
    ELSE IF isinstance(val, "Assign") THEN
        \/ hasattr(val.value, "args") /\ any_off_line(val.value.args, line)
        \/ hasattr(val.value, "elts") /\ any_off_line(val.value.elts, line)
    ELSE FALSE

\* get_binary_op_complexity without the floor of 1 on the nested complexity
RECURSIVE get_binary_op_complexity_no_floor(_)
get_binary_op_complexity_no_floor(arg) ==
    IF isinstance(arg, "BinOp") THEN
        1 + get_binary_op_complexity_no_floor(arg.left)
          + get_binary_op_complexity_no_floor(arg.right)
    ELSE 0

RECURSIVE get_binary_op_complexity(_)
get_binary_op_complexity(arg) ==
    IF isinstance(arg, "BinOp") THEN
        LET nested_complexity ==
                get_binary_op_complexity(arg.left) + get_binary_op_complexity(arg.right)
        IN 1 + (IF nested_complexity > 0 THEN nested_complexity ELSE 1)
    ELSE 0

-----------------------------------------------------------------------------
(* chained_function_checker.py *)

\* get_num_of_first_level_functions without the elif branch that descends
\* through an Attribute's expr
RECURSIVE get_num_value_only(_, _)
get_num_value_only(node, counter) ==
    IF hasattr(node, "value") /\ isinstance(node.value, "Call")
    THEN get_num_value_only(node.value.func, counter + 1)
    ELSE counter

RECURSIVE get_num_of_first_level_functions(_, _)
get_num_of_first_level_functions(node, counter) ==
    IF hasattr(node, "value") THEN
        IF isinstance(node.value, "Call")
        THEN get_num_of_first_level_functions(node.value.func, counter + 1)
        ELSE counter
    ELSE IF hasattr(node, "expr") THEN
        IF isinstance(node.expr, "Call")
        THEN get_num_of_first_level_functions(node.expr.func, counter + 1)
        ELSE counter
    ELSE counter

-----------------------------------------------------------------------------
(* The trees the walker is run on *)

RECURSIVE Pad(_)
Pad(n) == IF n = 0 THEN "" ELSE "x" \o Pad(n - 1)

\* a callee name with which a two-argument split call is exactly LineLimit wide
Wide == Pad(110)
CalleeNames == {"f", Wide, Wide \o "x"}

SeqsUpTo(S, n) == UNION {[1..k -> S] : k \in 0..n}

\* arguments of a select(...) call
SelectArgs ==
    { Name("col", 1),
      Call(Attribute(Name("c", 1), "alias", 1), <<Const(PyStr("x"), 1)>>, 1),
      Call(Attribute(Name("c", 1), "cast", 1), <<Const(PyStr("int"), 1)>>, 1),
      Call(Name("col", 1), <<Const(PyStr("x"), 1)>>, 1) }

\* expression statements: method calls, a plain call and a docstring
ExprNodes ==
    {Expr(Call(Attribute(Name("df", 1), m, 1), args, 1), 1, 0) :
        m \in {"select", "show"}, args \in SeqsUpTo(SelectArgs, MaxArgs)}
    \cup {Expr(Call(Name("select", 1), args, 1), 1, 0) : args \in SeqsUpTo(SelectArgs, 1)}
    \cup {Expr(Const(PyStr("doc"), 1), 1, 0)}

RECURSIVE BinTrees(_)
BinTrees(d) ==
    IF d = 0 THEN {Name("a", 1)}
    ELSE BinTrees(d - 1) \cup {BinOp(l, "&", r, 1) : l, r \in BinTrees(d - 1)}

BinOpNodes == {t \in BinTrees(MaxBinDepth) : isinstance(t, "BinOp")}

\* a.f1().f2()...fk()
RECURSIVE Chain(_)
Chain(k) ==
    IF k = 0 THEN Name("a", 1)
    ELSE Call(Attribute(Chain(k - 1), "f" \o IntToStr(k), 1), <<>>, 1)

\* argument lists of a call that starts on line 1
CallArgs ==
    { <<>>,
      <<Name("a", 1), Name("b", 1), Name("c", 1)>>,
      <<Name("a", 2), Name("b", 3), Name("c", 4)>>,
      <<Name("a", 1), Name("b", 2)>>,
      <<Const(PyInt(5), 2)>>,
      <<Const(PyStr("s"), 2)>>,
      <<Const(PyBool(TRUE), 2)>>,
      <<Const(PyNone, 2)>>,
      <<Const(PyInt(-12), 2), Const(PyStr(""), 2)>>,
      <<Tuple(<<Const(PyInt(1), 2), Const(PyInt(2), 2)>>, 2)>>,
      <<Tuple(<<Name("a", 2), Name("b", 2)>>, 2)>>,
      <<List(<<Const(PyInt(1), 2), Name("b", 2)>>, 2)>>,
      <<Compare(Name("a", 2), <<<<"==", Name("b", 2)>>>>, 2)>>,
      <<BinOp(Name("a", 2), "+", Attribute(Name("df", 2), "n", 2), 2)>>,
      <<Dict(2)>> }

AssignValues ==
    {Chain(k) : k \in 0..MaxChain}
    \cup {Call(Name(n, 1), args, 1) : n \in CalleeNames, args \in CallArgs}
    \cup { Const(PyInt(5), 1), Const(PyStr("s"), 1), Call(Name("f", 1), <<>>, 1),
           Tuple(<<Name("a", 1), Name("b", 2)>>, 1),
           Tuple(<<Name("a", 1), Name("b", 1)>>, 1),
           Tuple(<<Const(PyInt(1), 1), Const(PyInt(2), 2)>>, 1),
           Tuple(<<Const(PyInt(1), 1), Const(PyInt(2), 1)>>, 1),
           List(<<Const(PyInt(1), 1), Const(PyStr("s"), 2)>>, 1),
           List(<<Const(PyInt(1), 1), Const(PyStr("s"), 1)>>, 1),
           Compare(Name("a", 1), <<<<"==", Name("b", 1)>>>>, 1),
           BinOp(Name("a", 1), "+", Name("b", 1), 1),
           Dict(1) }

AssignTargets ==
    { <<AssignName("x", 1)>>,
      <<Tuple(<<AssignName("x", 1), AssignName("y", 1)>>, 1)>> }

AssignNodes == {Assign(t, v, 1) : t \in AssignTargets, v \in AssignValues}

\* statements of a function body, indented by 8 columns, starting on line 2
BodyStatements ==
    {Expr(Call(Name(n, 2), args, 2), 2, 8) :
        n \in CalleeNames,
        args \in {<<Name("a", 2), Name("b", 2)>>, <<Name("a", 3), Name("b", 4)>>}}
    \cup { Expr(Call(Attribute(Name("df", 2), "show", 2), <<Name("a", 3)>>, 2), 2, 8),
           Expr(Call(Attribute(Name("df", 2), "show", 2), <<Name("a", 2)>>, 2), 2, 8),
           Expr(Call(Name("f", 2), <<Tuple(<<Const(PyInt(1), 3)>>, 3)>>, 2), 2, 8),
           Expr(Const(PyStr("doc"), 2), 2, 8),
           Assign(<<AssignName("x", 2)>>, Call(Name("f", 2), <<Name("a", 3)>>, 2), 2) }

FunctionDefNodes ==
    {FunctionDef("g", <<AssignName("p", 1)>>, body, 1) :
        body \in SeqsUpTo(BodyStatements, MaxBody)}

\* the node handed to leave_functiondef; the handlers read nothing of it
LeftNode == FunctionDef("g", <<>>, <<>>, 1)

\* the root of the tree, which no handler subscribes to
Module == [kind |-> "Module", lineno |-> 0]

-----------------------------------------------------------------------------
(* The checkers, in the order checkers/__init__.py registers them *)

StackCheckers ==
    <<"FunctionCallChecker", "LogicOpComplexityChecker", "SelectAliasChecker",
      "SelectCastChecker", "StatementCallChecker">>

\* the checkers that define a handler for an event
Subscribers(ev) ==
    CASE ev = "visit_functiondef" -> StackCheckers
      [] ev = "leave_functiondef" -> StackCheckers
      [] ev = "visit_binop" -> <<"LogicOpComplexityChecker">>
      [] ev = "visit_expr" -> <<"SelectAliasChecker", "SelectCastChecker">>
      [] ev = "visit_assign" -> <<"StatementCallChecker", "ChainedDotFunctionsSyntaxChecker">>

NodesOf(ev) ==
    CASE ev = "visit_functiondef" -> FunctionDefNodes
      [] ev = "leave_functiondef" -> {LeftNode}
      [] ev = "visit_binop" -> BinOpNodes
      [] ev = "visit_expr" -> ExprNodes
      [] ev = "visit_assign" -> AssignNodes

Events ==
    {"visit_functiondef", "leave_functiondef", "visit_binop", "visit_expr", "visit_assign"}

Range(q) == {q[i] : i \in 1..Len(q)}

Init ==
    /\ cur = Module
    /\ event = ""
    /\ pending = <<>>
    /\ last = ""
    /\ added = <<>>
    /\ exc = ""
    /\ function_stack = [c \in Range(StackCheckers) |-> <<>>]
    /\ entered = 0
    /\ pc = "walking"

\* The walker reaches a node (or leaves a FunctionDef) and queues the
\* handlers subscribed to the event; entered counts the FunctionDefs the
\* walk is inside of.
Walk ==
    /\ pc = "walking"
    /\ pending = <<>>
    /\ \E ev \in Events :
        /\ ev = "visit_functiondef" => entered < MaxDepth
        /\ ev = "leave_functiondef" => entered > 0
        /\ event' = ev
        /\ cur' \in NodesOf(ev)
        /\ pending' = Subscribers(ev)
        /\ entered' = CASE ev = "visit_functiondef" -> entered + 1
                        [] ev = "leave_functiondef" -> entered - 1
                        [] OTHER -> entered
    /\ last' = ""
    /\ added' = <<>>
    /\ exc' = ""
    /\ UNCHANGED <<function_stack, pc>>

\* the walk ends, outside of every FunctionDef
Finish ==
    /\ pc = "walking"
    /\ pending = <<>>
    /\ entered = 0
    /\ pc' = "done"
    /\ UNCHANGED <<cur, event, pending, last, added, exc, function_stack, entered>>

\* checker c's handler for event ev is the next to run
Runs(c, ev) == pc = "walking" /\ pending # <<>> /\ Head(pending) = c /\ event = ev

\* the handler returns, having added msgs
Returns(c, msgs) ==
    /\ last' = c
    /\ added' = msgs
    /\ exc' = ""
    /\ pending' = Tail(pending)
    /\ UNCHANGED <<cur, event, entered, pc>>

\* the handler raises e, having added msgs: the exception ends the walk
Raises(c, msgs, e) ==
    /\ last' = c
    /\ added' = msgs
    /\ exc' = e
    /\ pc' = "aborted"
    /\ UNCHANGED <<cur, event, pending, entered, function_stack>>

\* self._function_stack.append([])
Push(c) == function_stack' = [function_stack EXCEPT ![c] = Append(@, <<>>)]

\* leave_functiondef that leaves the stack as it is
Pop_keeps(c) == function_stack' = function_stack

\* self._function_stack.pop()
Pop(c) ==
    function_stack' = [function_stack EXCEPT ![c] = SubSeq(@, 1, Len(@) - 1)]

-----------------------------------------------------------------------------
(* function_call_checker.py *)

\* split_call_loop adding a message for every argument on another line
RECURSIVE split_call_loop_per_argument(_)
split_call_loop_per_argument(body) ==
    IF body = <<>> THEN [exc |-> "", val |-> <<>>]
    ELSE LET statement == Head(body)
             this ==
                 IF isinstance(statement, "Expr") /\ is_line_split(statement.value) THEN
                     LET args_length == compute_arguments_length(statement.value.args)
                         off == {i \in 1..Len(statement.value.args) :
                                    statement.value.args[i].lineno # statement.value.lineno}
                     IN
                     IF args_length.exc # "" THEN [exc |-> args_length.exc, val |-> <<>>]
                     ELSE IF ~hasattr(statement.value.func, "name")
                          THEN [exc |-> "AttributeError", val |-> <<>>]
                     ELSE IF Len(statement.value.func.name) + statement.col_offset
                                 + args_length.val <= LineLimit
                          THEN [exc |-> "",
                                val |-> [i \in 1..Cardinality(off) |-> "unnecessarily-split-call"]]
                     ELSE [exc |-> "", val |-> <<>>]
                 ELSE [exc |-> "", val |-> <<>>]
         IN IF this.exc # "" THEN this
            ELSE LET rest == split_call_loop_per_argument(Tail(body)) IN
                 [exc |-> rest.exc, val |-> this.val \o rest.val]

\* the loop of visit_functiondef over node.body: the messages added, and the
\* exception that ends it
RECURSIVE split_call_loop(_)
split_call_loop(body) ==
    IF body = <<>> THEN [exc |-> "", val |-> <<>>]
    ELSE LET statement == Head(body)
             this ==
                 IF isinstance(statement, "Expr") /\ is_line_split(statement.value) THEN
                     LET args_length == compute_arguments_length(statement.value.args) IN
                     IF args_length.exc # "" THEN [exc |-> args_length.exc, val |-> <<>>]
                     ELSE IF ~hasattr(statement.value.func, "name")
                          THEN [exc |-> "AttributeError", val |-> <<>>]
                     ELSE IF Len(statement.value.func.name) + statement.col_offset
                                 + args_length.val <= LineLimit
                          THEN [exc |-> "", val |-> <<"unnecessarily-split-call">>]
                     ELSE [exc |-> "", val |-> <<>>]
                 ELSE [exc |-> "", val |-> <<>>]
         IN IF this.exc # "" THEN this
            ELSE LET rest == split_call_loop(Tail(body)) IN
                 [exc |-> rest.exc, val |-> this.val \o rest.val]

FunctionCallChecker_visit_functiondef ==
    /\ Runs("FunctionCallChecker", "visit_functiondef")
    /\ LET r == split_call_loop(cur.body) IN
       IF r.exc # "" THEN Raises("FunctionCallChecker", r.val, r.exc)
       ELSE Returns("FunctionCallChecker", r.val) /\ Push("FunctionCallChecker")

FunctionCallChecker_leave_functiondef ==
    /\ Runs("FunctionCallChecker", "leave_functiondef")
    /\ IF function_stack["FunctionCallChecker"] = <<>>
       THEN Raises("FunctionCallChecker", <<>>, "IndexError")
       ELSE Returns("FunctionCallChecker", <<>>) /\ Pop("FunctionCallChecker")

-----------------------------------------------------------------------------
(* logic_op_complexity_checker.py *)

LogicOpComplexityChecker_visit_functiondef ==
    /\ Runs("LogicOpComplexityChecker", "visit_functiondef")
    /\ Returns("LogicOpComplexityChecker", <<>>)
    /\ Push("LogicOpComplexityChecker")

LogicOpComplexityChecker_visit_binop ==
    /\ Runs("LogicOpComplexityChecker", "visit_binop")
    /\ Returns("LogicOpComplexityChecker",
               IF get_binary_op_complexity(cur) > ComplexityLimit
               THEN <<"high-logic-op-complexity">> ELSE <<>>)
    /\ UNCHANGED function_stack

LogicOpComplexityChecker_leave_functiondef ==
    /\ Runs("LogicOpComplexityChecker", "leave_functiondef")
    /\ IF function_stack["LogicOpComplexityChecker"] = <<>>
       THEN Raises("LogicOpComplexityChecker", <<>>, "IndexError")
       ELSE Returns("LogicOpComplexityChecker", <<>>) /\ Pop("LogicOpComplexityChecker")

-----------------------------------------------------------------------------
(* select_alias_checker.py *)

SelectAliasChecker_visit_functiondef ==
    /\ Runs("SelectAliasChecker", "visit_functiondef")
    /\ Returns("SelectAliasChecker", <<>>)
    /\ Push("SelectAliasChecker")

SelectAliasChecker_visit_expr ==
    /\ Runs("SelectAliasChecker", "visit_expr")
    /\ LET r == select_contains_alias_call(cur) IN
       IF r.exc # "" THEN Raises("SelectAliasChecker", <<>>, r.exc)
       ELSE /\ Returns("SelectAliasChecker",
                       IF r.val THEN <<"select-contains-alias">> ELSE <<>>)
            /\ UNCHANGED function_stack

SelectAliasChecker_leave_functiondef ==
    /\ Runs("SelectAliasChecker", "leave_functiondef")
    /\ IF function_stack["SelectAliasChecker"] = <<>>
       THEN Raises("SelectAliasChecker", <<>>, "IndexError")
       ELSE Returns("SelectAliasChecker", <<>>) /\ Pop("SelectAliasChecker")

-----------------------------------------------------------------------------
(* select_cast_checker.py: it imports and calls select_contains_alias_call *)

SelectCastChecker_visit_functiondef ==
    /\ Runs("SelectCastChecker", "visit_functiondef")
    /\ Returns("SelectCastChecker", <<>>)
    /\ Push("SelectCastChecker")

SelectCastChecker_visit_expr ==
    /\ Runs("SelectCastChecker", "visit_expr")
    /\ LET r == select_contains_alias_call(cur) IN
       IF r.exc # "" THEN Raises("SelectCastChecker", <<>>, r.exc)
       ELSE /\ Returns("SelectCastChecker",
                       IF r.val THEN <<"select-contains-cast">> ELSE <<>>)
            /\ UNCHANGED function_stack

SelectCastChecker_leave_functiondef ==
    /\ Runs("SelectCastChecker", "leave_functiondef")
    /\ IF function_stack["SelectCastChecker"] = <<>>
       THEN Raises("SelectCastChecker", <<>>, "IndexError")
       ELSE Returns("SelectCastChecker", <<>>) /\ Pop("SelectCastChecker")

-----------------------------------------------------------------------------
(* statement_call_checker.py *)

StatementCallChecker_visit_functiondef ==
    /\ Runs("StatementCallChecker", "visit_functiondef")
    /\ Returns("StatementCallChecker", <<>>)
    /\ Push("StatementCallChecker")

\* split_statement with < in place of <=
split_statement_strict(node) ==
    IF is_line_split(node) THEN
        LET length == get_length(node) IN
        IF length.exc # "" THEN [exc |-> length.exc, val |-> <<>>]
        ELSE IF length.val + AssignOverhead < LineLimit
             THEN [exc |-> "", val |-> <<"unnecessarily-split-statement">>]
        ELSE [exc |-> "", val |-> <<>>]
    ELSE [exc |-> "", val |-> <<>>]

\* the messages visit_assign adds for node, and the exception get_length raises
split_statement(node) ==
    IF is_line_split(node) THEN
        LET length == get_length(node) IN
        IF length.exc # "" THEN [exc |-> length.exc, val |-> <<>>]
        ELSE IF length.val + AssignOverhead <= LineLimit
             THEN [exc |-> "", val |-> <<"unnecessarily-split-statement">>]
        ELSE [exc |-> "", val |-> <<>>]
    ELSE [exc |-> "", val |-> <<>>]

StatementCallChecker_visit_assign ==
    /\ Runs("StatementCallChecker", "visit_assign")
    /\ LET r == split_statement(cur) IN
       IF r.exc # "" THEN Raises("StatementCallChecker", r.val, r.exc)
       ELSE Returns("StatementCallChecker", r.val) /\ UNCHANGED function_stack

StatementCallChecker_leave_functiondef ==
    /\ Runs("StatementCallChecker", "leave_functiondef")
    /\ IF function_stack["StatementCallChecker"] = <<>>
       THEN Raises("StatementCallChecker", <<>>, "IndexError")
       ELSE Returns("StatementCallChecker", <<>>) /\ Pop("StatementCallChecker")

-----------------------------------------------------------------------------
(* chained_function_checker.py *)

ChainedDotFunctionsSyntaxChecker_visit_assign ==
    /\ Runs("ChainedDotFunctionsSyntaxChecker", "visit_assign")
    /\ LET depth == get_num_of_first_level_functions(cur, 0) IN
       Returns("ChainedDotFunctionsSyntaxChecker",
               IF depth > ChainLimit THEN <<"chained-function-length">> ELSE <<>>)
    /\ UNCHANGED function_stack

-----------------------------------------------------------------------------

Next ==
    \/ Walk
    \/ Finish
    \/ FunctionCallChecker_visit_functiondef
    \/ FunctionCallChecker_leave_functiondef
    \/ LogicOpComplexityChecker_visit_functiondef
    \/ LogicOpComplexityChecker_visit_binop
    \/ LogicOpComplexityChecker_leave_functiondef
    \/ SelectAliasChecker_visit_functiondef
    \/ SelectAliasChecker_visit_expr
    \/ SelectAliasChecker_leave_functiondef
    \/ SelectCastChecker_visit_functiondef
    \/ SelectCastChecker_visit_expr
    \/ SelectCastChecker_leave_functiondef
    \/ StatementCallChecker_visit_functiondef
    \/ StatementCallChecker_visit_assign
    \/ StatementCallChecker_leave_functiondef
    \/ ChainedDotFunctionsSyntaxChecker_visit_assign

Spec == Init /\ [][Next]_vars

-----------------------------------------------------------------------------
(* Properties *)

\* checker c's handler for event ev is the one that ran last
Ran(c, ev) == last = c /\ event = ev

\* e is an expression statement wrapping a call whose callee attribute is select
IsSelectStatement(e) ==
    /\ isinstance(e, "Expr")
    /\ isinstance(e.value, "Call")
    /\ isinstance(e.value.func, "Attribute")
    /\ e.value.func.attrname = "select"

\* some argument of call is itself a Call whose callee attribute name is attr
HasCallArgument(call, attr) ==
    \E i \in 1..Len(call.args) :
        /\ isinstance(call.args[i], "Call")
        /\ isinstance(call.args[i].func, "Attribute")
        /\ call.args[i].func.attrname = attr

\* C1: on an expression statement wrapping a .select(...) call, the select-cast
\* rule adds select-contains-cast if and only if some argument of the call is
\* itself a Call whose callee attribute name is cast.
C1_CastIffCastArgument ==
    (Ran("SelectCastChecker", "visit_expr") /\ IsSelectStatement(cur)) =>
        ((added = <<"select-contains-cast">>) <=> HasCallArgument(cur.value, "cast"))

\* C2: on an expression statement wrapping a .select(...) call, the select-alias
\* rule adds select-contains-alias if and only if some argument of the call is
\* itself a Call whose callee attribute name is alias; it adds nothing when the
\* callee attribute name is not select.
C2_AliasIffAliasArgument ==
    Ran("SelectAliasChecker", "visit_expr") =>
        /\ IsSelectStatement(cur) =>
              ((added = <<"select-contains-alias">>) <=> HasCallArgument(cur.value, "alias"))
        /\ ~IsSelectStatement(cur) => added = <<>>

Max(a, b) == IF a >= b THEN a ELSE b

\* (((a & a) & a) ...) with k operators
RECURSIVE LeftNested(_)
LeftNested(k) ==
    IF k = 0 THEN Name("a", 1) ELSE BinOp(LeftNested(k - 1), "&", Name("a", 1), 1)

\* C3: the complexity of a BinOp is 1 + max(complexity(left) + complexity(right), 1)
\* and that of any other node 0, so a BinOp of two non-BinOp operands has
\* complexity 2; the rule adds its message at a BinOp exactly when the complexity
\* is above 3: at three left-nested BinOps, not at two or one.
C3_ComplexityRule ==
    Ran("LogicOpComplexityChecker", "visit_binop") =>
        /\ get_binary_op_complexity(cur)
              = 1 + Max(get_binary_op_complexity(cur.left)
                            + get_binary_op_complexity(cur.right), 1)
        /\ \A n \in {cur.left, cur.right} :
              ~isinstance(n, "BinOp") => get_binary_op_complexity(n) = 0
        /\ (~isinstance(cur.left, "BinOp") /\ ~isinstance(cur.right, "BinOp"))
              => get_binary_op_complexity(cur) = 2
        /\ added = IF get_binary_op_complexity(cur) > 3
                   THEN <<"high-logic-op-complexity">> ELSE <<>>
        /\ \A k \in 1..MaxBinDepth :
              cur = LeftNested(k) =>
                  /\ get_binary_op_complexity(cur) = k + 1
                  /\ (added # <<>>) <=> (k >= 3)

C3_Witness ==
    /\ Ran("LogicOpComplexityChecker", "visit_binop")
    /\ cur = LeftNested(3)
    /\ added = <<"high-logic-op-complexity">>

\* C4: the chain depth of an assignment is 0 when its value is a bare Name or
\* literal and k when it is k left-nested method calls a.f1()...fk(); the rule
\* adds its message exactly when the depth is above 3.
C4_ChainDepthRule ==
    Ran("ChainedDotFunctionsSyntaxChecker", "visit_assign") =>
        /\ \A k \in 0..MaxChain :
              cur.value = Chain(k) =>
                  /\ get_num_of_first_level_functions(cur, 0) = k
                  /\ (added # <<>>) <=> (k > 3)
        /\ (isinstance(cur.value, "Const") \/ isinstance(cur.value, "Name"))
              => get_num_of_first_level_functions(cur, 0) = 0
        /\ added = IF get_num_of_first_level_functions(cur, 0) > 3
                   THEN <<"chained-function-length">> ELSE <<>>

C4_Witness ==
    /\ Ran("ChainedDotFunctionsSyntaxChecker", "visit_assign")
    /\ cur.value = Chain(4)
    /\ added = <<"chained-function-length">>

\* some argument or element of the assigned value is on another line than the
\* assignment
SomeChildOffLine(assign) ==
    \/ /\ isinstance(assign.value, "Call")
       /\ \E i \in 1..Len(assign.value.args) : assign.value.args[i].lineno # assign.lineno
    \/ /\ isinstance(assign.value, "Tuple") \/ isinstance(assign.value, "List")
       /\ \E i \in 1..Len(assign.value.elts) : assign.value.elts[i].lineno # assign.lineno

\* x = f(a, b, c) with the arguments on the given lines
Scenario(la, lb, lc) ==
    Assign(<<AssignName("x", 1)>>,
           Call(Name("f", 1), <<Name("a", la), Name("b", lb), Name("c", lc)>>, 1), 1)

\* C5: on an Assign node the statement-split rule adds unnecessarily-split-statement
\* exactly once if and only if some argument or element of the assigned value is
\* on another line and get_length(assign) is a length L with L + 3 <= 120, and
\* nothing otherwise; x = f(a, b, c) on one line yields nothing, and with a, b, c
\* on lines of their own exactly one message.
C5_SplitStatementRule ==
    Ran("StatementCallChecker", "visit_assign") =>
        /\ is_line_split(cur) <=> SomeChildOffLine(cur)
        /\ added = IF /\ SomeChildOffLine(cur)
                      /\ get_length(cur).exc = ""
                      /\ get_length(cur).val + 3 <= 120
                   THEN <<"unnecessarily-split-statement">> ELSE <<>>
        /\ cur = Scenario(1, 1, 1) => added = <<>>
        /\ cur = Scenario(2, 3, 4) => added = <<"unnecessarily-split-statement">>

C5_Witness ==
    /\ Ran("StatementCallChecker", "visit_assign")
    /\ SomeChildOffLine(cur)
    /\ get_length(cur).val + 3 = 120
    /\ added = <<"unnecessarily-split-statement">>

\* statement st of a function body is an expression statement wrapping a call
\* that is split and fits: its callee name, the statement's column offset and
\* the length of its arguments are together at most 120
SplitCallFits(st) ==
    /\ isinstance(st, "Expr")
    /\ isinstance(st.value, "Call")
    /\ is_line_split(st.value)
    /\ hasattr(st.value.func, "name")
    /\ compute_arguments_length(st.value.args).exc = ""
    /\ Len(st.value.func.name) + st.col_offset
           + compute_arguments_length(st.value.args).val <= 120

\* C6: visit_functiondef adds unnecessarily-split-call for a direct-child
\* expression statement wrapping a Call if and only if the call is split and
\* fits in 120 columns: it adds one message for each such statement of the body.
C6_SplitCallPerStatement ==
    Ran("FunctionCallChecker", "visit_functiondef") =>
        /\ Len(added) = Cardinality({i \in 1..Len(cur.body) : SplitCallFits(cur.body[i])})
        /\ \A i \in 1..Len(added) : added[i] = "unnecessarily-split-call"

\* C7: one invocation of one visit handler on one node adds at most one
\* diagnostic.
C7_AtMostOnePerVisit == Len(added) <= 1

\* C7, amended: FunctionCallChecker.visit_functiondef adds at most one
\* diagnostic for each expression statement of the function's body, every
\* other handler at most one for its node.
C7_AtMostOnePerStatement ==
    IF Ran("FunctionCallChecker", "visit_functiondef")
    THEN Len(added) <= Cardinality({i \in 1..Len(cur.body) : isinstance(cur.body[i], "Expr")})
    ELSE Len(added) <= 1

C7_Witness ==
    /\ Ran("FunctionCallChecker", "visit_functiondef")
    /\ Len(cur.body) = 2
    /\ added = <<"unnecessarily-split-call", "unnecessarily-split-call">>

\* C8: the length of a literal is the length of its text, plus 2 only when it
\* is a string literal (here: of the literal arguments of a split call, which
\* visit_assign measures).
C8_LiteralLength ==
    (Ran("StatementCallChecker", "visit_assign") /\ isinstance(cur.value, "Call")
        /\ is_line_split(cur)) =>
        \A i \in 1..Len(cur.value.args) :
            isinstance(cur.value.args[i], "Const") =>
                get_length(cur.value.args[i])
                    = Return(Len(str(cur.value.args[i].value))
                             + IF cur.value.args[i].value.tag = "str" THEN 2 ELSE 0)

\* C9: no handler fails on a node: a shape a metric or rule does not handle is
\* length 0 or "condition not met", never an exception.
C9_NoHandlerRaises == exc = "" /\ pc # "aborted"

\* C10: the length of every checker's _function_stack is the number of
\* FunctionDefs entered and not yet left (a checker whose handler for the
\* current FunctionDef has not run yet is one behind), leave_functiondef never
\* pops an empty stack, and the stacks are empty when the walk ends.
C10_FunctionStack ==
    /\ \A c \in Range(StackCheckers) :
          Len(function_stack[c])
              = entered
                  - (IF event = "visit_functiondef" /\ c \in Range(pending) THEN 1 ELSE 0)
                  + (IF event = "leave_functiondef" /\ c \in Range(pending) THEN 1 ELSE 0)
    /\ exc # "IndexError"
    /\ pc = "done" => \A c \in Range(StackCheckers) : function_stack[c] = <<>>

C10_Witness ==
    /\ pc = "done"
    /\ event = "leave_functiondef"
    /\ last = "StatementCallChecker"

====
